---- MODULE Spec2Model ----
(***************************************************************************)
(* Model of the digital-signage server (main.go): the media scanner        *)
(* (scanMedia), the S3 reconciliation cycle (syncFromS3, downloadFromS3),  *)
(* its scheduler (syncLoop) and the API handler (handleMediaAPI), which    *)
(* share Server.mediaList and the media directory without any lock.        *)
(*                                                                         *)
(* A path is a sequence of path components; a component is a number whose  *)
(* order is the byte order of the name it stands for:                      *)
(*   1 = "a.mp4"   2 = "b.MP4"   3 = "d" (a directory)   4 = "n.txt"       *)
(* and 0 stands for the configured MediaDir.  The relative paths are       *)
(*   <<1>> = a.mp4   <<2>> = b.MP4   <<3,1>> = d/a.mp4   <<4>> = n.txt     *)
(***************************************************************************)
EXTENDS Integers, Sequences, FiniteSets, TLC

\* ---- bounds of the model ------------------------------------------------
MaxCycles == 2      \* sync cycles started by syncLoop
MaxEvents == 1      \* events from outside: bucket changes, local adds,
                    \* API requests and I/O failures, taken together
PageSize == 2       \* keys one ListObjectsV2 call returns (1000 in S3)

\* ---- the name space -----------------------------------------------------
MediaDir == 0
RelPaths == {<<1>>, <<2>>, <<3, 1>>, <<4>>}
Keys == {<<1>>, <<2>>, <<3, 1>>}
NoPath == <<>>      \* the zero value "" of a string

ExtOf(name) == CASE name = 1 -> ".mp4"
                 [] name = 2 -> ".MP4"
                 [] name = 4 -> ".txt"
                 [] OTHER -> ""

ToLower(ext) == IF ext = ".MP4" THEN ".mp4" ELSE ext

supportedExts == {".mp4", ".avi", ".mov", ".mkv", ".webm", ".m4v", ".3gp"}

\* filepath.Join(s.config.MediaDir, rel)
Join(dir, rel) == <<dir>> \o rel

\* filepath.Rel(s.config.MediaDir, path)
Rel(path) == Tail(path)

\* info.Name(): the last component
BaseName(path) == path[Len(path)]

\* byte order of two relative paths (directory entries are visited in it,
\* and S3 lists keys in it)
RECURSIVE LexLess(_, _)
LexLess(p, q) ==
    IF p = <<>> THEN q # <<>>
    ELSE IF q = <<>> THEN FALSE
    ELSE IF Head(p) # Head(q) THEN Head(p) < Head(q)
    ELSE LexLess(Tail(p), Tail(q))

RECURSIVE InOrder(_)
InOrder(S) ==
    IF S = {} THEN <<>>
    ELSE LET m == CHOOSE x \in S : \A y \in S \ {x} : LexLess(x, y)
         IN <<m>> \o InOrder(S \ {m})

Range(s) == {s[i] : i \in 1..Len(s)}

RECURSIVE SelectSupported(_)
SelectSupported(ps) ==
    IF ps = <<>> THEN <<>>
    ELSE LET p == Head(ps)
             rest == SelectSupported(Tail(ps))
         IN IF ToLower(ExtOf(BaseName(p))) \in supportedExts
            THEN <<[Name |-> BaseName(p),
                    Path |-> Join(MediaDir, p),
                    URL |-> [prefix |-> "/media/", rel |-> Rel(Join(MediaDir, p))]]>>
                 \o rest
            ELSE rest

\* ---- state --------------------------------------------------------------
VARIABLES
    fs,          \* media directory: relative path -> "absent" or a content
    bucket,      \* keys of the S3 bucket
    mediaList,   \* s.mediaList: [arr: the backing array, len: the length word]
    crashed,     \* the process died of a runtime panic
    \* syncLoop / syncFromS3
    pc, cycles, resp, localFilesToRemove, rangeLen, i, k, syncCount, r,
    sFiles, sPend,
    \* handleMediaAPI
    apc, aFiles, aPend, aMedia, aCount,
    \* budget
    events,
    \* history of the run, read by the properties only
    everPublished,   \* relative paths that some published list has named
    pubWalked,       \* media files visited by the walk behind mediaList.arr
    sWalked,         \* ... by the walk behind sFiles
    aWalked,         \* ... by the walk behind aFiles
    removed,         \* files the current cycle has deleted
    listErr,         \* the current cycle's listing failed
    observable,      \* the lists published while the cycle read s.mediaList
    built,           \* localFilesToRemove as built from s.mediaList
    clean,           \* no outside event and no I/O failure since the cycle began
    prevClean,       \* the cycle before ran clean and listed the bucket
    reconciled,      \* paths that a listing contained or that a list published
                     \* by syncFromS3's own rescan has named
    fetchFailed,     \* keys whose download failed in the current cycle
    removeFailed,    \* candidates whose os.Remove failed in the current cycle
    kept             \* keys whose file os.Stat found in the current cycle

\* ---- scanMedia ----------------------------------------------------------
\* filepath.Walk over the tree `f`: the entries are visited in byte order;
\* the callback returns the first error it is handed, which ends the walk,
\* so an I/O error after `cut` entries leaves the files collected so far.
WalkFiles(f, cut) ==
    LET trav == InOrder({p \in RelPaths : f[p] # "absent"})
    IN SelectSupported(SubSeq(trav, 1, cut))

WalkLen(f) == Cardinality({p \in RelPaths : f[p] # "absent"})

\* the comparison handed to sort.Slice
Less(x, y) == x.Name < y.Name

\* a variant of SortSlice that leaves the list in walk order
Unsorted(mf) == {mf}

\* sort.Slice(mediaFiles, less): a permutation in which no element is less
\* than one before it (sort.Slice is not a stable sort)
SortSlice(mf) ==
    {t \in [1..Len(mf) -> Range(mf)] :
        /\ Range(t) = Range(mf)
        /\ \A m, n \in 1..Len(mf) : m < n => ~Less(t[n], t[m])}

\* the media files among the first `cut` entries of the walk
Walked(f, cut) ==
    {Rel(m.Path) : m \in Range(WalkFiles(f, cut))}

\* what one call of scanMedia can compute from the tree `f`, with an I/O
\* error allowed when `budget` > 0: the sorted list, the media files its
\* walk visited, and whether the walk ended on an error
ScanOutcomes(f, budget) ==
    UNION {{[files |-> t, walked |-> Walked(f, cut), err |-> cut < WalkLen(f)] :
              t \in SortSlice(WalkFiles(f, cut))} :
           cut \in (IF budget > 0 THEN 0..WalkLen(f) ELSE {WalkLen(f)})}

PathsOf(files) == {Rel(files[n].Path) : n \in 1..Len(files)}

\* `s.mediaList = mediaFiles` stores a slice header word by word
StoreWord(h, w, files) ==
    IF w = "ptr" THEN [h EXCEPT !.arr = files]
    ELSE [h EXCEPT !.len = Len(files)]

\* ---- reads of s.mediaList ------------------------------------------------
\* len(s.mediaList)
LenOf(h) == h.len

\* a variant of ElemPath that takes the candidates from the directory and
\* not from the published list
ElemPathFromDisk(h, idx) ==
    IF idx >= h.len THEN {[kind |-> "panic", path |-> NoPath]}
    ELSE {[kind |-> "ok", path |-> Join(MediaDir, p)] :
            p \in {q \in RelPaths : fs[q] # "absent"}}

\* s.mediaList[idx].Path, idx counted from 0: a bounds check against the
\* length word, then a load from the backing array
ElemPath(h, idx) ==
    IF idx >= h.len THEN {[kind |-> "panic", path |-> NoPath]}
    ELSE IF idx < Len(h.arr) THEN {[kind |-> "ok", path |-> h.arr[idx + 1].Path]}
    ELSE {[kind |-> "ok", path |-> NoPath], [kind |-> "panic", path |-> NoPath]}

\* ---- syncFromS3 helpers ---------------------------------------------------
\* resp.Contents of one ListObjectsV2 call without continuation
ListObjectsV2(b) ==
    LET all == InOrder(b)
    IN SubSeq(all, 1, IF Len(all) < PageSize THEN Len(all) ELSE PageSize)

\* slices.Index(s, v), counted from 1; 0 when absent
Index(s, v) ==
    IF \E n \in 1..Len(s) : s[n] = v
    THEN CHOOSE n \in 1..Len(s) : s[n] = v /\ \A m \in 1..(n - 1) : s[m] # v
    ELSE 0

\* slices.Delete(s, n, n+1)
Delete(s, n) == SubSeq(s, 1, n - 1) \o SubSeq(s, n + 1, Len(s))

\* os.Stat(localPath) succeeds
Exists(f, localPath) ==
    IF localPath = NoPath THEN FALSE ELSE f[Rel(localPath)] # "absent"

\* where syncFromS3 continues once the loop over resp.Contents is over
AfterRemove(sc) == IF sc > 0 THEN "walk" ELSE "return"
AfterKeys(cands, sc) == IF Len(cands) > 0 THEN "remove" ELSE AfterRemove(sc)
\* a variant of AfterKey that leaves the loop over resp.Contents at once
AfterKeyBreak(n, contents, cands, sc) == AfterKeys(cands, sc)

AfterKey(n, contents, cands, sc) ==
    IF n > Len(contents) THEN AfterKeys(cands, sc) ELSE "keys"

\* a variant of AfterFetchError that gives the cycle up
AfterFetchErrorAbort(n, contents, cands, sc) == "return"

\* the `continue` after a failed downloadFromS3: on to the next key
AfterFetchError(n, contents, cands, sc) == AfterKey(n, contents, cands, sc)

\* a variant of AfterRemoveOne that leaves the removal loop when os.Remove
\* has failed
AfterRemoveOneStop(n, cands, sc, failed) ==
    IF failed \/ n > Len(cands) THEN AfterRemove(sc) ELSE "remove"

\* the loop over localFilesToRemove: os.Remove's result is not looked at
AfterRemoveOne(n, cands, sc, failed) ==
    IF n > Len(cands) THEN AfterRemove(sc) ELSE "remove"

\* a variant of AfterListError that logs the error and carries on
AfterListErrorIgnored == "make"

\* the `return` after a failed ListObjectsV2
AfterListError == "return"

\* ---- initial state: main() up to the start of syncLoop -------------------
Init ==
    /\ fs \in [RelPaths -> {"absent", "local"}]
    /\ fs[<<4>>] = "local"
    /\ bucket \in {{}, Keys}     \* BucketPut, BucketDelete lead to the rest
    /\ \E o \in ScanOutcomes(fs, 0) :
         /\ mediaList = [arr |-> o.files, len |-> Len(o.files)]
         /\ everPublished = PathsOf(o.files)
         /\ pubWalked = o.walked
    /\ crashed = FALSE
    /\ pc = "boot" /\ cycles = 0
    /\ resp = <<>> /\ localFilesToRemove = <<>>
    /\ rangeLen = 0 /\ i = 0 /\ k = 1 /\ syncCount = 0 /\ r = 1
    /\ sFiles = <<>> /\ sPend = {} /\ sWalked = {}
    /\ apc = "idle" /\ aFiles = <<>> /\ aPend = {} /\ aWalked = {}
    /\ aMedia = [arr |-> <<>>, len |-> 0] /\ aCount = 0
    /\ events = 0
    /\ removed = {} /\ listErr = FALSE /\ observable = {} /\ built = <<>>
    /\ clean = TRUE /\ prevClean = FALSE
    /\ reconciled = {} /\ fetchFailed = {} /\ removeFailed = {}
    /\ kept = {}

syncLocals == <<resp, localFilesToRemove, rangeLen, i, k, syncCount, r,
                sFiles, sPend, sWalked>>
syncVars == <<pc, cycles, syncLocals>>
apiVars == <<apc, aFiles, aPend, aMedia, aCount, aWalked>>
cycleHist == <<removed, listErr, observable, built, fetchFailed, removeFailed,
               kept>>
pubHist == <<everPublished, pubWalked, reconciled>>

\* a step of somebody else while the cycle reads s.mediaList
Observe(h) ==
    IF pc \in {"make", "range", "fill"} THEN observable \cup {h.arr}
    ELSE observable

\* ---- syncLoop -------------------------------------------------------------
\* a call of syncFromS3: the initial one, then one per tick of the ticker
StartCycle ==
    /\ cycles' = cycles + 1
    /\ pc' = "list"
    /\ observable' = {mediaList.arr}
    /\ prevClean' = (cycles > 0 /\ clean)
    /\ clean' = (apc = "idle")
    /\ UNCHANGED <<fs, bucket, mediaList, crashed, syncLocals, apiVars, events,
                   pubHist, removed, listErr, built, fetchFailed, removeFailed, kept>>

InitialSync == ~crashed /\ pc = "boot" /\ cycles < MaxCycles /\ StartCycle

Tick == ~crashed /\ pc = "idle" /\ cycles < MaxCycles /\ StartCycle

\* ---- syncFromS3 -----------------------------------------------------------
\* ListObjectsV2 returns an error: log and return
ListFail ==
    /\ ~crashed /\ pc = "list" /\ events < MaxEvents
    /\ events' = events + 1
    /\ pc' = AfterListError
    /\ listErr' = TRUE /\ clean' = FALSE
    /\ UNCHANGED <<fs, bucket, mediaList, crashed, cycles, syncLocals, apiVars,
                   pubHist, removed, observable, built, fetchFailed,
                   removeFailed, kept, prevClean>>

\* ListObjectsV2 succeeds
ListOk ==
    /\ ~crashed /\ pc = "list"
    /\ resp' = ListObjectsV2(bucket)
    /\ pc' = "make"
    /\ observable' = {mediaList.arr}
    /\ reconciled' = reconciled \cup {Rel(Join(MediaDir, resp'[n])) : n \in 1..Len(resp')}
    /\ UNCHANGED <<fs, bucket, mediaList, crashed, cycles, localFilesToRemove,
                   rangeLen, i, k, syncCount, r, sFiles, sPend, sWalked, apiVars,
                   events, everPublished, pubWalked, removed, listErr, built,
                   fetchFailed, removeFailed, kept, clean, prevClean>>

\* localFilesToRemove := make([]string, len(s.mediaList))
MakeCandidates ==
    /\ ~crashed /\ pc = "make"
    /\ localFilesToRemove' = [n \in 1..LenOf(mediaList) |-> NoPath]
    /\ pc' = "range"
    /\ UNCHANGED <<fs, bucket, mediaList, crashed, cycles, resp, rangeLen, i, k,
                   syncCount, r, sFiles, sPend, sWalked, apiVars, events,
                   pubHist, cycleHist, clean, prevClean>>

\* for i := range len(s.mediaList)
RangeCandidates ==
    /\ ~crashed /\ pc = "range"
    /\ rangeLen' = LenOf(mediaList)
    /\ pc' = IF rangeLen' > 0 THEN "fill"
             ELSE AfterKey(1, resp, localFilesToRemove, 0)
    /\ built' = IF rangeLen' > 0 THEN built ELSE localFilesToRemove
    /\ UNCHANGED <<fs, bucket, mediaList, crashed, cycles, resp,
                   localFilesToRemove, i, k, syncCount, r, sFiles, sPend,
                   sWalked, apiVars, events, pubHist, removed, listErr,
                   observable, fetchFailed, removeFailed, kept, clean, prevClean>>

\* localFilesToRemove[i] = s.mediaList[i].Path
FillCandidate ==
    /\ ~crashed /\ pc = "fill"
    /\ \E e \in ElemPath(mediaList, i) :
         IF e.kind = "panic" \/ i >= Len(localFilesToRemove)
         THEN /\ crashed' = TRUE
              /\ UNCHANGED <<pc, localFilesToRemove, i, built>>
         ELSE /\ localFilesToRemove' = [localFilesToRemove EXCEPT ![i + 1] = e.path]
              /\ i' = i + 1
              /\ pc' = IF i' < rangeLen THEN "fill"
                       ELSE AfterKey(1, resp, localFilesToRemove', 0)
              /\ built' = IF i' < rangeLen THEN built ELSE localFilesToRemove'
              /\ UNCHANGED crashed
    /\ UNCHANGED <<fs, bucket, mediaList, cycles, resp, rangeLen, k, syncCount,
                   r, sFiles, sPend, sWalked, apiVars, events, pubHist, removed,
                   listErr, observable, fetchFailed, removeFailed, kept, clean,
                   prevClean>>

\* os.Stat(localPath) succeeds: the key's file is no candidate for removal
KeyExists ==
    /\ ~crashed /\ pc = "keys"
    /\ LET localPath == Join(MediaDir, resp[k])
           index == Index(localFilesToRemove, localPath)
       IN /\ Exists(fs, localPath)
          /\ localFilesToRemove' = IF index # 0 THEN Delete(localFilesToRemove, index)
                                   ELSE localFilesToRemove
    /\ kept' = kept \cup {resp[k]}
    /\ k' = k + 1
    /\ pc' = AfterKey(k', resp, localFilesToRemove', syncCount)
    /\ UNCHANGED <<fs, bucket, mediaList, crashed, cycles, resp, rangeLen, i,
                   syncCount, r, sFiles, sPend, sWalked, apiVars, events,
                   pubHist, removed, listErr, observable, built, fetchFailed,
                   removeFailed, clean, prevClean>>

\* downloadFromS3 returns an error before the local file is created
\* (MkdirAll, GetObject or os.Create fails)
FetchFail ==
    /\ ~crashed /\ pc = "keys"
    /\ ~Exists(fs, Join(MediaDir, resp[k]))
    /\ \/ resp[k] \notin bucket /\ UNCHANGED events
       \/ resp[k] \in bucket /\ events < MaxEvents /\ events' = events + 1
    /\ clean' = FALSE
    /\ fetchFailed' = fetchFailed \cup {resp[k]}
    /\ k' = k + 1
    /\ pc' = AfterFetchError(k', resp, localFilesToRemove, syncCount)
    /\ UNCHANGED <<fs, bucket, mediaList, crashed, cycles, resp,
                   localFilesToRemove, rangeLen, i, syncCount, r, sFiles, sPend,
                   sWalked, apiVars, pubHist, removed, listErr, observable,
                   built, removeFailed, kept, prevClean>>

\* downloadFromS3 returns nil: os.Create(localPath) and a complete io.Copy
FetchOk ==
    /\ ~crashed /\ pc = "keys"
    /\ ~Exists(fs, Join(MediaDir, resp[k]))
    /\ resp[k] \in bucket
    /\ fs' = [fs EXCEPT ![Rel(Join(MediaDir, resp[k]))] = "full"]
    /\ syncCount' = syncCount + 1
    /\ k' = k + 1
    /\ pc' = AfterKey(k', resp, localFilesToRemove, syncCount')
    /\ UNCHANGED <<bucket, mediaList, crashed, cycles, resp, localFilesToRemove,
                   rangeLen, i, r, sFiles, sPend, sWalked, apiVars, events,
                   pubHist, cycleHist, clean, prevClean>>

\* os.Create(localPath) succeeds, then io.Copy returns an error: the file
\* stays at localPath as far as it was written
FetchTruncated ==
    /\ ~crashed /\ pc = "keys" /\ events < MaxEvents
    /\ ~Exists(fs, Join(MediaDir, resp[k]))
    /\ resp[k] \in bucket
    /\ fs' = [fs EXCEPT ![Rel(Join(MediaDir, resp[k]))] = "partial"]
    /\ events' = events + 1
    /\ clean' = FALSE
    /\ fetchFailed' = fetchFailed \cup {resp[k]}
    /\ k' = k + 1
    /\ pc' = AfterFetchError(k', resp, localFilesToRemove, syncCount)
    /\ UNCHANGED <<bucket, mediaList, crashed, cycles, resp, localFilesToRemove,
                   rangeLen, i, syncCount, r, sFiles, sPend, sWalked, apiVars,
                   pubHist, removed, listErr, observable, built, removeFailed, kept,
                   prevClean>>

\* os.Remove(localF) for the next candidate; its error is dropped
RemoveCandidate ==
    /\ ~crashed /\ pc = "remove"
    /\ r' = r + 1
    /\ LET localF == localFilesToRemove[r]
       IN \/ /\ Exists(fs, localF)
             /\ fs' = [fs EXCEPT ![Rel(localF)] = "absent"]
             /\ removed' = removed \cup {Rel(localF)}
             /\ pc' = AfterRemoveOne(r', localFilesToRemove, syncCount, FALSE)
             /\ UNCHANGED <<events, clean, removeFailed, kept>>
          \/ /\ Exists(fs, localF)
             /\ events < MaxEvents /\ events' = events + 1
             /\ clean' = FALSE
             /\ removeFailed' = removeFailed \cup {localF}
             /\ pc' = AfterRemoveOne(r', localFilesToRemove, syncCount, TRUE)
             /\ UNCHANGED <<fs, removed>>
          \/ /\ ~Exists(fs, localF)
             /\ removeFailed' = removeFailed \cup {localF}
             /\ pc' = AfterRemoveOne(r', localFilesToRemove, syncCount, TRUE)
             /\ UNCHANGED <<fs, removed, events, clean>>
    /\ UNCHANGED <<bucket, mediaList, crashed, cycles, resp, localFilesToRemove,
                   rangeLen, i, k, syncCount, sFiles, sPend, sWalked, apiVars,
                   pubHist, listErr, observable, built, fetchFailed, kept, prevClean>>

\* s.scanMedia() of syncFromS3: the walk and the sort
SyncWalk ==
    /\ ~crashed /\ pc = "walk"
    /\ \E o \in ScanOutcomes(fs, MaxEvents - events) :
         /\ sFiles' = o.files
         /\ sWalked' = o.walked
         /\ events' = IF o.err THEN events + 1 ELSE events
         /\ clean' = IF o.err THEN FALSE ELSE clean
    /\ sPend' = {"ptr", "len"}
    /\ pc' = "store"
    /\ UNCHANGED <<fs, bucket, mediaList, crashed, cycles, resp,
                   localFilesToRemove, rangeLen, i, k, syncCount, r, apiVars,
                   pubHist, cycleHist, prevClean>>

\* s.mediaList = mediaFiles, one word of the header
SyncStore ==
    /\ ~crashed /\ pc = "store"
    /\ \E w \in sPend :
         /\ mediaList' = StoreWord(mediaList, w, sFiles)
         /\ sPend' = sPend \ {w}
         /\ everPublished' = IF w = "ptr" THEN everPublished \cup PathsOf(sFiles)
                             ELSE everPublished
         /\ pubWalked' = IF w = "ptr" THEN sWalked ELSE pubWalked
         /\ reconciled' = IF w = "ptr" THEN reconciled \cup PathsOf(sFiles)
                          ELSE reconciled
    /\ pc' = IF sPend' = {} THEN "return" ELSE "store"
    /\ UNCHANGED <<fs, bucket, crashed, cycles, resp, localFilesToRemove,
                   rangeLen, i, k, syncCount, r, sFiles, sWalked, apiVars,
                   events, cycleHist, clean, prevClean>>

\* syncFromS3 returns to syncLoop, which waits for the next tick
Return ==
    /\ ~crashed /\ pc = "return"
    /\ pc' = "idle"
    /\ resp' = <<>> /\ localFilesToRemove' = <<>>
    /\ rangeLen' = 0 /\ i' = 0 /\ k' = 1 /\ syncCount' = 0 /\ r' = 1
    /\ sFiles' = <<>> /\ sPend' = {} /\ sWalked' = {}
    /\ removed' = {} /\ listErr' = FALSE /\ observable' = {} /\ built' = <<>>
    /\ fetchFailed' = {} /\ removeFailed' = {} /\ kept' = {}
    /\ UNCHANGED <<fs, bucket, mediaList, crashed, cycles, apiVars, events,
                   pubHist, clean, prevClean>>

\* ---- handleMediaAPI -------------------------------------------------------
\* a request arrives; s.scanMedia(): the walk and the sort
ApiScan ==
    /\ ~crashed /\ apc = "idle" /\ events < MaxEvents
    /\ \E o \in ScanOutcomes(fs, MaxEvents - events - 1) :
         /\ aFiles' = o.files
         /\ aWalked' = o.walked
         /\ events' = IF o.err THEN events + 2 ELSE events + 1
    /\ aPend' = {"ptr", "len"}
    /\ apc' = "store"
    /\ clean' = FALSE
    /\ UNCHANGED <<fs, bucket, mediaList, crashed, syncVars, aMedia, aCount,
                   pubHist, cycleHist, prevClean>>

\* s.mediaList = mediaFiles, one word of the header
ApiStore ==
    /\ ~crashed /\ apc = "store"
    /\ \E w \in aPend :
         /\ mediaList' = StoreWord(mediaList, w, aFiles)
         /\ aPend' = aPend \ {w}
         /\ everPublished' = IF w = "ptr" THEN everPublished \cup PathsOf(aFiles)
                             ELSE everPublished
         /\ pubWalked' = IF w = "ptr" THEN aWalked ELSE pubWalked
    /\ observable' = Observe(mediaList')
    /\ apc' = IF aPend' = {} THEN "media" ELSE "store"
    /\ UNCHANGED <<fs, bucket, crashed, syncVars, aFiles, aMedia, aCount,
                   aWalked, events, reconciled, removed, listErr, built,
                   fetchFailed, removeFailed, kept, clean, prevClean>>

\* "media": s.mediaList
ApiReadMedia ==
    /\ ~crashed /\ apc = "media"
    /\ aMedia' = mediaList
    /\ apc' = "count"
    /\ UNCHANGED <<fs, bucket, mediaList, crashed, syncVars, aFiles, aPend,
                   aCount, aWalked, events, pubHist, cycleHist, clean, prevClean>>

\* "count": len(s.mediaList)
ApiReadCount ==
    /\ ~crashed /\ apc = "count"
    /\ aCount' = LenOf(mediaList)
    /\ apc' = "encode"
    /\ UNCHANGED <<fs, bucket, mediaList, crashed, syncVars, aFiles, aPend,
                   aMedia, aWalked, events, pubHist, cycleHist, clean, prevClean>>

\* json.NewEncoder(w).Encode(response); the handler returns
ApiRespond ==
    /\ ~crashed /\ apc = "encode"
    /\ apc' = "idle"
    /\ aFiles' = <<>> /\ aPend' = {} /\ aWalked' = {}
    /\ aMedia' = [arr |-> <<>>, len |-> 0] /\ aCount' = 0
    /\ UNCHANGED <<fs, bucket, mediaList, crashed, syncVars, events, pubHist,
                   cycleHist, clean, prevClean>>

\* ---- the outside world ----------------------------------------------------
BucketPut ==
    /\ ~crashed /\ events < MaxEvents
    /\ \E key \in Keys \ bucket : bucket' = bucket \cup {key}
    /\ events' = events + 1
    /\ clean' = FALSE
    /\ UNCHANGED <<fs, mediaList, crashed, syncVars, apiVars, pubHist,
                   cycleHist, prevClean>>

BucketDelete ==
    /\ ~crashed /\ events < MaxEvents
    /\ \E key \in bucket : bucket' = bucket \ {key}
    /\ events' = events + 1
    /\ clean' = FALSE
    /\ UNCHANGED <<fs, mediaList, crashed, syncVars, apiVars, pubHist,
                   cycleHist, prevClean>>

LocalAdd ==
    /\ ~crashed /\ events < MaxEvents
    /\ \E p \in RelPaths : fs[p] = "absent" /\ fs' = [fs EXCEPT ![p] = "local"]
    /\ events' = events + 1
    /\ clean' = FALSE
    /\ UNCHANGED <<bucket, mediaList, crashed, syncVars, apiVars, pubHist,
                   cycleHist, prevClean>>

Next ==
    \/ InitialSync \/ Tick
    \/ ListFail \/ ListOk \/ MakeCandidates \/ RangeCandidates \/ FillCandidate
    \/ KeyExists \/ FetchFail \/ FetchOk \/ FetchTruncated
    \/ RemoveCandidate \/ SyncWalk \/ SyncStore \/ Return
    \/ ApiScan \/ ApiStore \/ ApiReadMedia \/ ApiReadCount \/ ApiRespond
    \/ BucketPut \/ BucketDelete \/ LocalAdd

vars == <<fs, bucket, mediaList, crashed, syncVars, apiVars, events, pubHist,
          cycleHist, clean, prevClean>>

Spec == Init /\ [][Next]_vars

\* ==== properties ===========================================================
Supported(p) == ToLower(ExtOf(BaseName(p))) \in supportedExts
OnDisk == {p \in RelPaths : fs[p] # "absent"}
MediaOnDisk == {p \in OnDisk : Supported(p)}

\* the cycle has run to its end and has not yet returned to syncLoop
CycleDone == pc = "return"
CycleListed == pc = "return" /\ ~listErr

\* the relative paths the cycle has handed to os.Remove so far
Attempted ==
    {Rel(localFilesToRemove[n]) :
        n \in {m \in 1..(r - 1) : localFilesToRemove[m] # NoPath}}

\* the local paths of the keys the cycle listed
Listed == {Rel(Join(MediaDir, resp[n])) : n \in 1..Len(resp)}

\* C1: a sync cycle deletes a file only if its path is an entry of a list
\* that was published while the cycle read s.mediaList; a path that no
\* published list ever named, and a path without a supported media
\* extension, is never deleted.
C1_DeletionConservatism ==
    \A p \in removed :
        /\ p \in everPublished
        /\ Supported(p)
        /\ \E l \in observable : p \in PathsOf(l)

\* a cycle has deleted a file and ended, while a media file that no list
\* ever named and no key maps to, and the unsupported file, are still there
C1_Witness ==
    /\ CycleDone /\ removed # {}
    /\ <<4>> \in OnDisk
    /\ \E p \in MediaOnDisk : p \notin everPublished /\ p \notin bucket

\* C2: in a cycle that listed the bucket, with nothing else happening, the
\* paths handed to os.Remove are exactly the paths of the published list
\* whose key the listing does not contain; no listed key's path is among
\* them.
C2_ExactRemovals ==
    (CycleListed /\ clean) =>
        \A l \in observable :
            Attempted = {p \in PathsOf(l) : p \notin Listed}

\* C3: os.Remove is called only after the loop over resp.Contents has
\* handled (found or fetched) every listed key of the cycle.
C3_DownloadsBeforeRemovals ==
    (pc = "remove" \/ r > 1 \/ removed # {}) => k = Len(resp) + 1

\* a cycle that fetched a key and then deleted a file
C3_Witness == CycleDone /\ syncCount > 0 /\ removed # {}

\* C4: a cycle whose listing fails goes straight back to syncLoop: it has
\* downloaded nothing, deleted nothing and republished nothing, and none of
\* its steps changes the file tree or s.mediaList.
C4_FailedListingNoMutation ==
    [][/\ listErr' =>
            /\ pc' = "return"
            /\ syncCount' = 0 /\ removed' = {} /\ r' = 1 /\ k' = 1
            /\ sPend' = {} /\ sFiles' = <<>>
       /\ ((~listErr /\ listErr') \/ (listErr /\ pc' # pc)) =>
            /\ fs' = fs
            /\ mediaList' = mediaList]_vars

\* a listing failed while the published list names files that no key of
\* the bucket maps to
C4_Witness ==
    /\ listErr /\ CycleDone
    /\ \E p \in PathsOf(mediaList.arr) : p \in OnDisk /\ p \notin bucket

\* C5: of two cycles that run back to back, with the bucket unchanged and
\* nothing else happening, the second fetches nothing and is left with no
\* candidate for removal.
C5_Idempotence ==
    (CycleListed /\ clean /\ prevClean) =>
        syncCount = 0 /\ localFilesToRemove = <<>>

\* the paths of a list, in order
PathSeq(l) == [n \in 1..Len(l) |-> l[n].Path]

\* C6: what a cycle reads of s.mediaList while other goroutines publish is
\* one of the published lists, whole: the candidates it builds are the
\* paths of a single list.
C6_AtomicVisibility ==
    (pc \in {"keys", "remove", "walk", "store", "return"} /\ ~listErr) =>
        \E l \in observable : built = PathSeq(l)

SortedByName(l) == \A m, n \in 1..Len(l) : m < n => l[m].Name <= l[n].Name

\* C7: the published list is sorted ascending by Name, and it holds every
\* media file its walk visited exactly once, so files of the same name in
\* different directories are separate entries.
C7_Ordering ==
    /\ SortedByName(mediaList.arr)
    /\ PathsOf(mediaList.arr) = pubWalked
    /\ Len(mediaList.arr) = Cardinality(pubWalked)

\* a rescan has published three files, two of them of one name
C7_Witness ==
    /\ apc = "media"
    /\ mediaList = [arr |-> aFiles, len |-> Len(aFiles)]
    /\ Len(mediaList.arr) = 3
    /\ \E m, n \in 1..3 : m # n /\ mediaList.arr[m].Name = mediaList.arr[n].Name
    /\ \E m, n \in 1..3 : mediaList.arr[m].Name # mediaList.arr[n].Name

\* C8: when a cycle that listed the bucket ends, and nothing but syncLoop
\* has acted since the startup scan, the published list names exactly the
\* media files on disk.
C8_InventoryMatchesDisk ==
    (CycleListed /\ events = 0) =>
        /\ PathsOf(mediaList.arr) = MediaOnDisk
        /\ mediaList.len = Len(mediaList.arr)

\* C9: when a cycle ends in which the listing and every fetch succeeded,
\* with nothing else happening, every listed key has a file at its path.
C9_ListedKeysPresent ==
    (CycleListed /\ clean) => Listed \subseteq OnDisk

\* C10: no file in the media directory holds only part of an object's body.
C10_NoTruncatedFile == \A p \in RelPaths : fs[p] # "partial"

\* C11: a file is deleted by a cycle only if a listing has contained its
\* key or a list published by syncFromS3's own rescan has named it; a file
\* that only the startup scan or handleMediaAPI's rescan has put into
\* s.mediaList is not deleted.
C11_ApiScannedNotRemoved == \A p \in removed : p \in reconciled

\* C12: syncLoop is either waiting (before its first call, or for a tick)
\* or in one call of syncFromS3, the first call being the one at startup;
\* it never reaches a state it cannot leave: no cycle is cut short by the
\* death of the process, and a waiting syncLoop can start the next cycle,
\* also after a cycle whose listing failed.
C12_SchedulerAlternates ==
    /\ ~crashed
    /\ (pc = "boot") <=> (cycles = 0)
    /\ (pc \in {"boot", "idle"} /\ cycles < MaxCycles) => ENABLED (InitialSync \/ Tick)

\* C13: when lists of different lengths are published while a cycle reads
\* s.mediaList, the cycle does not panic, and the candidates it has built
\* are the paths of one of those lists.
C13_NoPanicUnderRescan ==
    (\E l1, l2 \in observable : Len(l1) # Len(l2)) =>
        /\ ~crashed
        /\ (pc \in {"keys", "remove", "walk", "store", "return"} /\ ~listErr) =>
              \E l \in observable : built = PathSeq(l)

\* C14: the keys a cycle reconciles against are all the keys the bucket
\* holds when it is listed, and no file whose key the bucket holds at that
\* time is deleted by the cycle (with the bucket unchanged since).
C14_CompleteListing ==
    [][/\ (pc = "list" /\ pc' = "make") => Range(resp') = bucket
       /\ \A p \in Keys :
            (pc = "remove" /\ clean /\ fs[p] # "absent" /\ fs'[p] = "absent")
                => p \notin bucket]_vars

\* C15: in a cycle in which a download (or several) has failed, the loop
\* over resp.Contents has still handled every listed key, so that each key
\* whose download did not fail has its file (unless the cycle itself has
\* deleted it), and the removal loop has still gone through all its
\* candidates.
C15_FetchFailureIsolated ==
    (pc \in {"walk", "store", "return"} /\ ~listErr /\ fetchFailed # {}) =>
        /\ k = Len(resp) + 1
        /\ r = Len(localFilesToRemove) + 1
        /\ \A n \in 1..Len(resp) :
             \/ resp[n] \in fetchFailed
             \/ Rel(Join(MediaDir, resp[n])) \in OnDisk \cup removed

\* a cycle in which the download of one key failed, a later key of the
\* listing was downloaded, and a file was deleted
C15_Witness ==
    /\ CycleDone /\ syncCount > 0 /\ removed # {}
    /\ \E m, n \in 1..Len(resp) :
         m < n /\ resp[m] \in fetchFailed /\ fs[resp[n]] = "full"

\* the entries json.Encode writes for the slice header `h`: the first h.len
\* elements of its backing array; a header whose length exceeds its array
\* makes it read past the array, which is shown as one entry too many
Encoded(h) ==
    IF h.len <= Len(h.arr) THEN SubSeq(h.arr, 1, h.len)
    ELSE h.arr \o <<[Name |-> 0, Path |-> NoPath,
                     URL |-> [prefix |-> "/media/", rel |-> NoPath]]>>

\* C16: the response handleMediaAPI encodes is consistent: "count" is the
\* number of entries of "media", and "media" is a whole list that a rescan
\* begun after the request arrived has computed.
C16_ResponseConsistent ==
    apc = "encode" =>
        /\ aCount = Len(Encoded(aMedia))
        /\ Encoded(aMedia) \in {aFiles, sFiles}

\* C17: the list a rescan computes lacks at most the one entry of the tree
\* at which its walk met an I/O error: every other media file on disk,
\* also one that comes after that entry, is in the list.
C17_WalkErrorSkipsOneEntry ==
    [][/\ (pc = "walk" /\ pc' = "store") =>
            \E e \in RelPaths : MediaOnDisk \ {e} \subseteq PathsOf(sFiles')
       /\ (apc = "idle" /\ apc' = "store") =>
            \E e \in RelPaths : MediaOnDisk \ {e} \subseteq PathsOf(aFiles')]_vars

\* C18: a cycle downloads a key only to a path at which there is no file,
\* and a file that os.Stat found when its key was handled is neither
\* rewritten nor deleted by the rest of the cycle.
C18_ExistingNeverRefetched ==
    [][\A p \in Keys :
         /\ (pc = "keys" /\ fs'[p] \in {"full", "partial"} /\ fs'[p] # fs[p])
                => fs[p] = "absent"
         /\ p \in kept => fs'[p] = fs[p]]_vars

\* C19: once the removal loop of a cycle is over, os.Remove has been called
\* for every candidate, whether or not the removal of an earlier one
\* failed, and the cycle goes on to its end.
C19_BestEffortDeletions ==
    (pc \in {"walk", "store", "return"} /\ ~listErr) =>
        /\ r = Len(localFilesToRemove) + 1
        /\ \A n \in 1..Len(localFilesToRemove) :
             \/ localFilesToRemove[n] \in removeFailed
             \/ Rel(localFilesToRemove[n]) \in removed

\* a cycle has ended in which the removal of one candidate failed and a
\* later candidate was deleted
C19_Witness ==
    /\ CycleDone
    /\ \E m, n \in 1..Len(localFilesToRemove) :
         /\ m < n
         /\ localFilesToRemove[m] \in removeFailed
         /\ Exists(fs, localFilesToRemove[m])
         /\ localFilesToRemove[n] \notin removeFailed
         /\ Rel(localFilesToRemove[n]) \in removed

\* C20: entries of the published list that have the same Name are in the
\* order in which the walk visited them.
C20_StableSort ==
    \A m, n \in 1..Len(mediaList.arr) :
        (m < n /\ mediaList.arr[m].Name = mediaList.arr[n].Name) =>
            LexLess(Rel(mediaList.arr[m].Path), Rel(mediaList.arr[n].Path))

\* C21: when the rescan of a sync cycle and the rescan of an API request
\* have both published, and the later of the two walks saw the tree as it
\* is now, s.mediaList is the whole result of one of the two walks and it
\* names exactly the media files on disk.
C21_ConcurrentRescans ==
    (/\ pc = "return" /\ syncCount > 0 /\ ~listErr
     /\ apc \in {"media", "count", "encode"}
     /\ (sWalked = MediaOnDisk \/ aWalked = MediaOnDisk)) =>
        /\ mediaList \in {[arr |-> sFiles, len |-> Len(sFiles)],
                          [arr |-> aFiles, len |-> Len(aFiles)]}
        /\ PathsOf(mediaList.arr) = MediaOnDisk

====
